---- MODULE Spec2Model ----
(***************************************************************************)
(* Model of the BROWSEEASE frontend streaming layer.                       *)
(*                                                                         *)
(*   SpecWS : the useWebSocket hook (frontend/src/hooks/use-websocket.ts,  *)
(*            lines 20-120): one hook instance, the WebSocket objects it   *)
(*            creates, its refs, its reconnect timers and its React state. *)
(*   SpecSR : the SearchResults component (same file, lines 144-319): its  *)
(*            three state cells and the effects that fold the values the   *)
(*            useSSESearch hook publishes into them.                       *)
(*   SpecIndex : the Index page (part_001): its five state cells, the      *)
(*            simulateSearch calls in flight and the timers they set.      *)
(*   SpecApi : the useApi hook (part_000): its loading state and the       *)
(*            request() calls in flight.                                   *)
(***************************************************************************)
EXTENDS Integers, Sequences, FiniteSets

(***************************************************************************)
(* Bounds of the model.                                                    *)
(***************************************************************************)
\* largest value drawn for the maxReconnectAttempts option
MaxAttempts == 3
\* WebSocket objects one hook instance may create in a behaviour
MaxSockets == MaxAttempts + 1
\* payloads handed to sendMessage
MaxPayload == 1
\* re-runs of the connect effect (changed url or callback identity)
MaxReruns == 1
\* most entries the Index page's messages holds in a behaviour
MaxIndexMessages == 10
\* calls of useApi's request() in a behaviour
MaxRequests == 3

(***************************************************************************)
(* WebSocket.readyState values, as the switch of getConnectionStatus       *)
(* names them.                                                             *)
(***************************************************************************)
CONNECTING == 0
OPEN == 1
CLOSING == 2
CLOSED == 3

Payloads == 1..MaxPayload
\* the frames the server delivers
Frames == {"f1", "f2"}
\* lastMessage = null
NoMessage == "null"

VARIABLES
    \* ---- useWebSocket -------------------------------------------------
    autoReconnect,          \* option autoReconnect (line 25)
    maxReconnectAttempts,   \* option maxReconnectAttempts (line 27)
    phase,                  \* "init" | "mounted" | "unmounted": the component's life
    sockets,                \* sockets[i]: readyState of the i-th WebSocket created
    webSocketRef,           \* webSocketRef.current: 0 (null) or an index of sockets
    reconnectAttemptsRef,   \* reconnectAttemptsRef.current
    timers,                 \* pending setTimeout callbacks, each named by the socket
                            \* whose onclose scheduled it
    reconnectTimeoutRef,    \* reconnectTimeoutRef.current: 0 (null) or a timer
    readyState,             \* React state readyState
    lastMessage,            \* React state lastMessage: NoMessage (null) or a frame
    unseen,                 \* a setLastMessage not yet rendered: no render has shown
                            \* the consumer the current lastMessage
    wire,                   \* payloads handed to WebSocket.send
    sendLog,                \* per payload: NoSend, or how the sendMessage call that
                            \* got it ended and whether the current socket was open
    lastCallback,           \* the option callback invoked last
    \* ---- observers (history of the run, read by the properties only) ---
    everOpened,             \* some socket has opened
    reruns,                 \* how often the connect effect has re-run (deps changed)
    teardownReconnect,      \* the close event of a socket closed by the cleanup
                            \* has scheduled a reconnect
    stale,                  \* timers that were pending when a cleanup ran and survived it
    exhausted,              \* the last onclose found attempts >= maxReconnectAttempts
    \* ---- SearchResults: what useSSESearch returns (lines 145-154) ------
    results,                \* NoResults (null) or FinalResult(products)
    partialResults,         \* sequence of products
    loading,                \* a search is streaming
    error,                  \* an error is published (a string in the code; TRUE here)
    \* ---- SearchResults: the component's state (lines 156-158) ----------
    streamMessages,         \* sequence of [type, message]
    progressValue,
    displayedProducts,      \* sequence of [id, name, isTopPick]
    \* ---- observers ----------------------------------------------------
    started,                \* a search has been started
    cancelled,              \* handleCancel has returned and no search was started since
    \* ---- Index: the page's state (part_001, lines 46-50) ---------------
    isSearching,
    indexProgress,          \* state progress
    indexMessages,          \* state messages: sequence of [run, step, type]
    indexResults,           \* state results: NoProducts ([]) or a mock list
    indexSummary,           \* state summary: NoSummary (null) or a mock summary
    \* ---- Index: the running simulateSearch calls -----------------------
    called,                 \* the queries simulateSearch was called with
    stepOf,                 \* stepOf[q]: the loop variable i of the call for q
    indexTimers,            \* pending setTimeout callbacks: [kind, run]
    \* ---- observers ----------------------------------------------------
    current,                \* the query of the latest simulateSearch call
    \* ---- useApi (part_000) --------------------------------------------
    apiLoading,             \* state loading (line 22)
    pc,                     \* pc[r]: where call r of request() is: "idle" (not
                            \* called), "fetch" (awaiting fetch), "body" (awaiting
                            \* response.json() / text()), "done" (settled)
    response,               \* response[r]: what fetch gave call r
    settled                 \* settled[r]: how the promise of call r settled

wsVars == <<autoReconnect, maxReconnectAttempts, phase, sockets, webSocketRef,
            reconnectAttemptsRef, timers, reconnectTimeoutRef, readyState,
            lastMessage, unseen, wire, lastCallback>>
wsObs == <<everOpened, reruns, teardownReconnect, stale, exhausted, sendLog>>

srVars == <<results, partialResults, loading, error, streamMessages, progressValue,
            displayedProducts>>
srObs == <<started, cancelled>>

indexVars == <<isSearching, indexProgress, indexMessages, indexResults, indexSummary,
               called, stepOf, indexTimers>>
indexObs == <<current>>

apiVars == <<apiLoading, pc, response, settled>>

vars == <<wsVars, wsObs, srVars, srObs, indexVars, indexObs, apiVars>>

\* a payload not yet handed to sendMessage
NoSend == [open |-> FALSE, result |-> "none"]

(***************************************************************************)
(* useWebSocket: helpers                                                   *)
(***************************************************************************)

\* getConnectionStatus (lines 35-48)
ConnectionStatusOf(rs) ==
    CASE rs = CONNECTING -> "connecting"
      [] rs = OPEN -> "open"
      [] rs = CLOSING -> "closing"
      [] rs = CLOSED -> "closed"
      [] OTHER -> "closed"

getConnectionStatus == ConnectionStatusOf(readyState)

\* setReadyState: a state update of an unmounted component is dropped by React
setReadyState(v) == IF phase = "unmounted" THEN readyState ELSE v

\* WebSocket.close(): CONNECTING/OPEN -> CLOSING at once; the close event
\* follows later.  A no-op on a CLOSING or CLOSED socket.
CloseSocket(socks, s) ==
    IF socks[s] \in {CONNECTING, OPEN} THEN [socks EXCEPT ![s] = CLOSING] ELSE socks

\* line 51: the guard of connect()
AlreadyOpen(socks, ref) == ref # 0 /\ socks[ref] = OPEN

\* line 72: the condition under which onclose schedules a reconnect
ShouldReconnectAlways(attempts) == autoReconnect
ShouldReconnectOff(attempts) ==
    autoReconnect /\ attempts <= maxReconnectAttempts
ShouldReconnect(attempts) ==
    autoReconnect /\ attempts < maxReconnectAttempts

\* connect() (lines 50-83) on the sockets as they are after `socks`:
\* returns early when the current socket is OPEN, else creates a WebSocket,
\* stores it in webSocketRef and sets readyState to CONNECTING.
connect(socks, rsNow) ==
    IF AlreadyOpen(socks, webSocketRef)
    THEN /\ sockets' = socks
         /\ webSocketRef' = webSocketRef
         /\ readyState' = rsNow
         /\ exhausted' = exhausted
    ELSE /\ Len(socks) < MaxSockets
         /\ sockets' = Append(socks, CONNECTING)
         /\ webSocketRef' = Len(socks) + 1
         /\ readyState' = setReadyState(CONNECTING)
         /\ exhausted' = FALSE

\* the cleanup of the connect effect (lines 97-105): clearTimeout of the timer
\* in reconnectTimeoutRef, close() of the socket in webSocketRef
CleanupTimers == timers \ {reconnectTimeoutRef}
CleanupSockets == IF webSocketRef # 0 THEN CloseSocket(sockets, webSocketRef) ELSE sockets

(***************************************************************************)
(* useWebSocket: actions                                                   *)
(***************************************************************************)

\* first render: the effect of lines 94-106 runs connect()
Mount ==
    /\ UNCHANGED <<srVars, srObs, indexVars, indexObs, apiVars>>
    /\ phase = "init"
    /\ phase' = "mounted"
    /\ connect(sockets, readyState)
    /\ UNCHANGED <<autoReconnect, maxReconnectAttempts, reconnectAttemptsRef, timers,
                   reconnectTimeoutRef, lastMessage, unseen, wire, lastCallback>>
    /\ UNCHANGED <<everOpened, reruns, teardownReconnect, stale, sendLog>>

\* a dependency of connect changed (url or a callback's identity): the
\* effect's cleanup runs, then the effect runs the new connect()
EffectRerun ==
    /\ UNCHANGED <<srVars, srObs, indexVars, indexObs, apiVars>>
    /\ phase = "mounted"
    /\ reruns < MaxReruns
    /\ timers' = CleanupTimers
    /\ stale' = CleanupTimers
    /\ connect(CleanupSockets, readyState)
    /\ reruns' = reruns + 1
    /\ UNCHANGED <<autoReconnect, maxReconnectAttempts, phase, reconnectAttemptsRef,
                   reconnectTimeoutRef, lastMessage, unseen, wire, lastCallback>>
    /\ UNCHANGED <<everOpened, teardownReconnect, sendLog>>

\* the component unmounts: the effect's cleanup runs; a state update still
\* waiting for its render is dropped with the component
Unmount ==
    /\ UNCHANGED <<srVars, srObs, indexVars, indexObs, apiVars>>
    /\ phase = "mounted"
    /\ phase' = "unmounted"
    /\ timers' = CleanupTimers
    /\ stale' = CleanupTimers
    /\ sockets' = CleanupSockets
    /\ unseen' = FALSE
    /\ UNCHANGED <<autoReconnect, maxReconnectAttempts, webSocketRef, reconnectAttemptsRef,
                   reconnectTimeoutRef, readyState, lastMessage, wire, lastCallback>>
    /\ UNCHANGED <<everOpened, reruns, teardownReconnect, exhausted, sendLog>>

\* line 60: reconnectAttemptsRef.current after a successful open
AttemptsKept(attempts) == attempts
ResetAttempts(attempts) == 0

\* the open event of socket s: onopen (lines 58-62)
SocketOpen(s) ==
    /\ UNCHANGED <<srVars, srObs, indexVars, indexObs, apiVars>>
    /\ sockets[s] = CONNECTING
    /\ sockets' = [sockets EXCEPT ![s] = OPEN]
    /\ readyState' = setReadyState(OPEN)
    /\ reconnectAttemptsRef' = ResetAttempts(reconnectAttemptsRef)
    /\ lastCallback' = "onOpen"
    /\ everOpened' = TRUE
    /\ UNCHANGED <<autoReconnect, maxReconnectAttempts, phase, webSocketRef, timers,
                   reconnectTimeoutRef, lastMessage, unseen, wire>>
    /\ UNCHANGED <<reruns, teardownReconnect, stale, exhausted, sendLog>>

\* a message event of socket s: onmessage (lines 64-66) queues the state
\* update; a second update queued before the render replaces the first
SocketMessage(s, m) ==
    /\ UNCHANGED <<srVars, srObs, indexVars, indexObs, apiVars>>
    /\ sockets[s] = OPEN
    /\ phase # "unmounted"
    /\ lastMessage' = m
    /\ unseen' = TRUE
    /\ UNCHANGED <<autoReconnect, maxReconnectAttempts, phase, sockets, webSocketRef,
                   reconnectAttemptsRef, timers, reconnectTimeoutRef, readyState, wire,
                   lastCallback>>
    /\ UNCHANGED wsObs

\* the component renders with the queued lastMessage: the consumer reads the
\* value the hook returns (lines 114-119), then the effect on lastMessage
\* (lines 108-112) copies the current socket's readyState
Render ==
    /\ UNCHANGED <<srVars, srObs, indexVars, indexObs, apiVars>>
    /\ phase = "mounted"
    /\ unseen
    /\ unseen' = FALSE
    /\ readyState' = IF webSocketRef # 0 THEN sockets[webSocketRef] ELSE readyState
    /\ UNCHANGED <<autoReconnect, maxReconnectAttempts, phase, sockets, webSocketRef,
                   reconnectAttemptsRef, timers, reconnectTimeoutRef, lastMessage, wire,
                   lastCallback>>
    /\ UNCHANGED wsObs

\* the close event of socket s: onclose (lines 68-78)
SocketClose(s) ==
    /\ UNCHANGED <<srVars, srObs, indexVars, indexObs, apiVars>>
    /\ sockets[s] \in {CONNECTING, OPEN, CLOSING}
    /\ sockets' = [sockets EXCEPT ![s] = CLOSED]
    /\ readyState' = setReadyState(CLOSED)
    /\ lastCallback' = "onClose"
    /\ IF ShouldReconnect(reconnectAttemptsRef)
       THEN /\ timers' = timers \cup {s}
            /\ reconnectTimeoutRef' = s
            /\ exhausted' = exhausted
            /\ teardownReconnect' = (teardownReconnect \/ sockets[s] = CLOSING)
       ELSE /\ UNCHANGED <<timers, reconnectTimeoutRef, teardownReconnect>>
            /\ exhausted' = (autoReconnect /\ reconnectAttemptsRef >= maxReconnectAttempts)
    /\ UNCHANGED <<autoReconnect, maxReconnectAttempts, phase, webSocketRef,
                   reconnectAttemptsRef, lastMessage, unseen, wire>>
    /\ UNCHANGED <<everOpened, reruns, stale, sendLog>>

\* an onerror that would also treat the error as the end of the connection
SocketErrorCloses(s) ==
    /\ UNCHANGED <<srVars, srObs, indexVars, indexObs, apiVars>>
    /\ sockets[s] \in {CONNECTING, OPEN, CLOSING}
    /\ lastCallback' = "onError"
    /\ sockets' = [sockets EXCEPT ![s] = CLOSED]
    /\ readyState' = setReadyState(CLOSED)
    /\ UNCHANGED <<autoReconnect, maxReconnectAttempts, phase, webSocketRef,
                   reconnectAttemptsRef, timers, reconnectTimeoutRef,
                   lastMessage, unseen, wire>>
    /\ UNCHANGED wsObs

\* an error event of socket s: onerror (lines 80-82)
SocketError(s) ==
    /\ UNCHANGED <<srVars, srObs, indexVars, indexObs, apiVars>>
    /\ sockets[s] \in {CONNECTING, OPEN, CLOSING}
    /\ lastCallback' = "onError"
    /\ UNCHANGED <<autoReconnect, maxReconnectAttempts, phase, sockets, webSocketRef,
                   reconnectAttemptsRef, timers, reconnectTimeoutRef, readyState,
                   lastMessage, unseen, wire>>
    /\ UNCHANGED wsObs

\* the reconnect timer scheduled by socket t's onclose fires (lines 73-76)
TimerFire(t) ==
    /\ UNCHANGED <<srVars, srObs, indexVars, indexObs, apiVars>>
    /\ t \in timers
    /\ timers' = timers \ {t}
    /\ reconnectAttemptsRef' = reconnectAttemptsRef + 1
    /\ connect(sockets, readyState)
    /\ stale' = stale \ {t}
    /\ UNCHANGED <<autoReconnect, maxReconnectAttempts, phase, reconnectTimeoutRef,
                   lastMessage, unseen, wire, lastCallback>>
    /\ UNCHANGED <<everOpened, reruns, teardownReconnect, sendLog>>

\* line 87: the guard of sendMessage
SendGuardAny(socks, ref) == ref # 0 /\ socks[ref] \in {CONNECTING, OPEN}
SendGuard(socks, ref) == ref # 0 /\ socks[ref] = OPEN

\* sendMessage(data) (lines 85-92); each payload is handed over once, the
\* payloads in the order of their numbers
sendMessage(d) ==
    /\ UNCHANGED <<srVars, srObs, indexVars, indexObs, apiVars>>
    /\ phase = "mounted"
    /\ sendLog[d] = NoSend
    /\ \A e \in Payloads : e < d => sendLog[e] # NoSend
    /\ sendLog' = [sendLog EXCEPT ![d] =
                      [open |-> webSocketRef # 0 /\ sockets[webSocketRef] = OPEN,
                       result |-> "returned"]]
    /\ IF SendGuard(sockets, webSocketRef)
       THEN wire' = wire \cup {d}
       ELSE wire' = wire
    /\ UNCHANGED <<autoReconnect, maxReconnectAttempts, phase, sockets, webSocketRef,
                   reconnectAttemptsRef, timers, reconnectTimeoutRef, readyState,
                   lastMessage, unseen, lastCallback>>
    /\ UNCHANGED <<everOpened, reruns, teardownReconnect, stale, exhausted>>

(***************************************************************************)
(* SearchResults: values                                                   *)
(***************************************************************************)
\* most entries streamMessages holds in a behaviour
MaxMessages == 3
\* longest logs array one update of useSSESearch carries
MaxBatch == 2

\* results = null
NoResults == [isNull |-> TRUE, products |-> <<>>]
FinalResult(items) == [isNull |-> FALSE, products |-> items]
\* a missing number or text: <<>>; a number n is <<n>>
Undefined == <<>>
NoId == "undefined"

\* message texts, as sequences of words; String.includes(w) is Includes(t, w)
\* the entry handleRetry looks for (line 265)
StartText == <<"Search initiated:", "laptop">>
ErrorText == <<"Error", "timeout">>
DoneText == <<"Search", "completed">>
CancelText == <<"Search", "cancelled", "by", "user">>
LogTexts == {StartText, ErrorText}
ProgressTexts == {DoneText, StartText, Undefined}

Percents == {<<0>>, <<10>>, <<55>>, Undefined}
Statuses == {"running", "completed", "cancelled", "error"}
ProgressValues == [progress : Percents, status : Statuses, message : ProgressTexts]

\* products as the backend sends them: with or without an id
ProductA == [id |-> "a", name |-> "A", recommended |-> TRUE]
ProductB == [id |-> NoId, name |-> "B", recommended |-> FALSE]
ProductLists == {<<>>, <<ProductA>>, <<ProductB>>}
\* ids `product-${Date.now()}-${Math.random()}` can yield
GenIds == {"g1", "g2"}

LogBatches == UNION {[1..n -> LogTexts] : n \in 0..MaxBatch}

(***************************************************************************)
(* SearchResults: helpers                                                  *)
(***************************************************************************)
Includes(text, w) == \E i \in 1..Len(text) : text[i] = w

\* lines 173-175: the severity of a log line
LogType(log) ==
    IF Includes(log, "Error") THEN "error"
    ELSE IF Includes(log, "completed") THEN "success"
    ELSE IF Includes(log, "Progress") THEN "progress"
    ELSE "info"

\* lines 171-178: logs.map(...)
NewMessages(logs) == [i \in 1..Len(logs) |-> [type |-> LogType(logs[i]), message |-> logs[i]]]

\* line 182: new Set(prev.map(m => m.message))
ExistingMessages(prev) == {prev[i].message : i \in 1..Len(prev)}

\* line 183: newMessages.filter(m => !existingMessages.has(m.message))
UniqueNewMessages(prev, new) ==
    SelectSeq(new, LAMBDA m : m.message \notin ExistingMessages(prev))

\* lines 180-185: the updater handed to setStreamMessages by the logs effect
FoldLogsPrepend(prev, logs) == UniqueNewMessages(prev, NewMessages(logs)) \o prev
FoldLogs(prev, logs) == prev \o UniqueNewMessages(prev, NewMessages(logs))

\* line 191: progress.progress || 0
OrZero(x) == IF x = Undefined THEN 0 ELSE x[1]

\* lines 195-197
MessageTypeFlat(status) == "progress"
MessageType(status) ==
    IF status = "completed" THEN "success"
    ELSE IF status = "cancelled" THEN "warning"
    ELSE "progress"

\* lines 194-210: the derived log entry of a progress update
FoldProgress(prev, p) ==
    IF p.message # Undefined /\ p.status # "error"
    THEN IF \E i \in 1..Len(prev) : prev[i].message = p.message
         THEN prev
         ELSE Append(prev, [type |-> MessageType(p.status), message |-> p.message])
    ELSE prev

\* lines 217-221 and 223-227: the rows one run of products.map(...) can give;
\* a product without id gets a generated one
Rows(products) ==
    {d \in [1..Len(products) -> [id : GenIds \cup {"a"}, name : {"A", "B"},
                                 isTopPick : BOOLEAN]] :
        \A i \in 1..Len(products) :
            /\ d[i].name = products[i].name
            /\ d[i].id = (IF products[i].id # NoId THEN products[i].id ELSE d[i].id)
            /\ products[i].id = NoId => d[i].id \in GenIds
            /\ d[i].isTopPick = products[i].recommended}

\* lines 215-229: the effect on [results, partialResults]
ResultsEffect(res, partial) ==
    IF ~res.isNull
    THEN displayedProducts' \in Rows(res.products)
    ELSE IF Len(partial) > 0
    THEN displayedProducts' \in Rows(partial)
    ELSE displayedProducts' = displayedProducts

(***************************************************************************)
(* SearchResults: actions                                                  *)
(***************************************************************************)

\* useSSESearch.search(request): a new search always creates a fresh session
\* state (spec section 3), so no result of the previous one stays published
search ==
    /\ results' = NoResults
    /\ partialResults' = <<>>
    /\ loading' = TRUE
    /\ error' = FALSE

\* useSSESearch.cancelSearch(): the session stops streaming (spec section 4.4,
\* "Cancellation request")
cancelSearch == loading' = FALSE

\* useSSESearch records the final result at most once per session (spec
\* section 3, "final result set (set at most once)")
FinalNotRecorded == results.isNull

\* handleSearch (lines 232-243)
handleSearch ==
    /\ UNCHANGED <<wsVars, wsObs, indexVars, indexObs, apiVars>>
    /\ streamMessages' = <<>>
    /\ progressValue' = 0
    /\ displayedProducts' = <<>>
    /\ search
    /\ started' = TRUE
    /\ cancelled' = FALSE

\* line 297: the Cancel button is rendered only while loading
CancelButtonAlways == TRUE
CancelButtonShown == loading

\* lines 250-254: the entry handleCancel appends
CancelEntryInfo == [type |-> "info", message |-> CancelText]
CancelEntry == [type |-> "warning", message |-> CancelText]

\* handleCancel (lines 246-257), the onClick of the Cancel button
handleCancel ==
    /\ UNCHANGED <<wsVars, wsObs, indexVars, indexObs, apiVars>>
    /\ CancelButtonShown
    /\ Len(streamMessages) < MaxMessages
    /\ cancelSearch
    /\ streamMessages' = Append(streamMessages, CancelEntry)
    /\ cancelled' = TRUE
    /\ UNCHANGED <<results, partialResults, error, progressValue, displayedProducts, started>>

\* useSSESearch publishes a new logs array: the effect of lines 168-186
LogsUpdate(logs) ==
    /\ UNCHANGED <<wsVars, wsObs, indexVars, indexObs, apiVars>>
    /\ started
    /\ Len(logs) > 0
    /\ Len(FoldLogs(streamMessages, logs)) <= MaxMessages
    /\ streamMessages' = FoldLogs(streamMessages, logs)
    /\ UNCHANGED <<results, partialResults, loading, error, progressValue, displayedProducts>>
    /\ UNCHANGED srObs

\* useSSESearch publishes a new progress object: the effect of lines 189-212
ProgressUpdate(p) ==
    /\ UNCHANGED <<wsVars, wsObs, indexVars, indexObs, apiVars>>
    /\ started
    /\ Len(FoldProgress(streamMessages, p)) <= MaxMessages
    /\ progressValue' = OrZero(p.progress)
    /\ streamMessages' = FoldProgress(streamMessages, p)
    /\ UNCHANGED <<results, partialResults, loading, error, displayedProducts>>
    /\ UNCHANGED srObs

\* useSSESearch publishes a partial-result batch: the effect of lines 215-229
PartialUpdate(items) ==
    /\ UNCHANGED <<wsVars, wsObs, indexVars, indexObs, apiVars>>
    /\ started
    /\ partialResults' = items
    /\ ResultsEffect(results, items)
    /\ UNCHANGED <<results, loading, error, streamMessages, progressValue>>
    /\ UNCHANGED srObs

\* useSSESearch publishes the final result, once per session: the effect of
\* lines 215-229
FinalUpdate(items) ==
    /\ UNCHANGED <<wsVars, wsObs, indexVars, indexObs, apiVars>>
    /\ started
    /\ FinalNotRecorded
    /\ results' = FinalResult(items)
    /\ loading' = FALSE
    /\ ResultsEffect(FinalResult(items), partialResults)
    /\ UNCHANGED <<partialResults, error, streamMessages, progressValue>>
    /\ UNCHANGED srObs

\* useSSESearch publishes an error: the streaming session has failed and no
\* longer streams (spec section 4.4, "ErrorEvent")
fail ==
    /\ loading
    /\ error' = TRUE
    /\ loading' = FALSE

\* useSSESearch publishes an error; nothing in SearchResults depends on it
\* but the Alert with the Retry button (lines 275-287)
ErrorUpdate ==
    /\ UNCHANGED <<wsVars, wsObs, indexVars, indexObs, apiVars>>
    /\ fail
    /\ UNCHANGED <<results, partialResults, streamMessages, progressValue,
                   displayedProducts>>
    /\ UNCHANGED srObs

\* line 275: the Retry button is rendered only while an error is published
RetryButtonShown == error

\* line 261: !results && !partialResults.length
NothingToShow(res, partial) == res.isNull /\ Len(partial) = 0

\* line 265: streamMessages.find(m => m.message.includes('Search initiated:'))
HasInitiated(log) ==
    \E i \in 1..Len(log) : Includes(log[i].message, "Search initiated:")

\* handleRetry (lines 260-270), the onClick of the Retry button: the log and
\* the progress value are reset before the last query is looked up; with a
\* query found it goes on as handleSearch(lastQuery)
handleRetry ==
    /\ UNCHANGED <<wsVars, wsObs, indexVars, indexObs, apiVars>>
    /\ RetryButtonShown
    /\ IF NothingToShow(results, partialResults)
       THEN /\ streamMessages' = <<>>
            /\ progressValue' = 0
            /\ IF HasInitiated(streamMessages)
               THEN /\ displayedProducts' = <<>>
                    /\ search
                    /\ started' = TRUE
                    /\ cancelled' = FALSE
               ELSE UNCHANGED <<results, partialResults, loading, error,
                                displayedProducts, started, cancelled>>
       ELSE UNCHANGED <<srVars, srObs>>

NextSR ==
    \/ handleSearch
    \/ handleCancel
    \/ handleRetry
    \/ ErrorUpdate
    \/ \E logs \in LogBatches : LogsUpdate(logs)
    \/ \E p \in ProgressValues : ProgressUpdate(p)
    \/ \E items \in ProductLists : PartialUpdate(items)
    \/ \E items \in ProductLists : FinalUpdate(items)


(***************************************************************************)
(* Index: values                                                           *)
(***************************************************************************)
\* searchSteps.length (lines 348-359)
NumSteps == 10
\* line 377: the step after which the results are shown
ResultsStep == 7

\* the queries typed into the search box, as sequences of lower-case words;
\* each is searched at most once, so a call is named by its query
QueryLaptop == <<"gaming", "laptop">>
QueryTV == <<"smart", "tv">>
Queries == {QueryLaptop, QueryTV}
NoQuery == <<>>

\* results = [] and summary = null
NoProducts == "[]"
NoSummary == "null"

\* lines 332-346: the mock data picked from the query
MockResults(q) ==
    IF Includes(q, "laptop") THEN "mockLaptops"
    ELSE IF Includes(q, "earbud") \/ Includes(q, "headphone") THEN "mockEarbuds"
    ELSE IF Includes(q, "tv") THEN "mockTVs"
    ELSE "mockMobiles"
MockSummary(q) ==
    IF Includes(q, "laptop") THEN "mockLaptopSummary"
    ELSE IF Includes(q, "earbud") \/ Includes(q, "headphone") THEN "mockEarbudsSummary"
    ELSE IF Includes(q, "tv") THEN "mockTVSummary"
    ELSE "mockSummary"

\* lines 348-359: the type of searchSteps[i]
StepType(i) ==
    IF i = 0 THEN "info"
    ELSE IF i = 7 \/ i = 9 THEN "success"
    ELSE "progress"

\* lines 364-371: newMessage of step i of the call for q; the id
\* `msg-${Date.now()}-${i}` and the text (which quotes the query in step 0)
\* are told apart by run and step
NewMessage(q, i) == [run |-> q, step |-> i, type |-> StepType(i)]

\* line 374: ((i + 1) / searchSteps.length) * 100
StepProgressFromZero(i) == (i * 100) \div NumSteps
StepProgress(i) == ((i + 1) * 100) \div NumSteps

ResultsTimer(q) == [kind |-> "results", run |-> q]
SummaryTimer(q) == [kind |-> "summary", run |-> q]

(***************************************************************************)
(* Index: actions                                                          *)
(***************************************************************************)

\* simulateSearch(query) up to its first await (lines 325-362); the function
\* has no guard of its own and cancels nothing
simulateSearch(q) ==
    /\ UNCHANGED <<wsVars, wsObs, srVars, srObs, apiVars>>
    /\ q \notin called
    /\ isSearching' = TRUE
    /\ indexProgress' = 0
    /\ indexMessages' = <<>>
    /\ indexResults' = NoProducts
    /\ indexSummary' = NoSummary
    /\ called' = called \cup {q}
    /\ stepOf' = [stepOf EXCEPT ![q] = 0]
    /\ current' = q
    /\ UNCHANGED indexTimers

\* one iteration of the loop of the call for q, from the end of its await
\* (lines 362-385); the last iteration runs on to setIsSearching(false)
\* (line 387). The 500 ms timer of step 7 has fired before the at least
\* 800 ms await of step 8 ends.
SearchStep(q) ==
    /\ UNCHANGED <<wsVars, wsObs, srVars, srObs, apiVars>>
    /\ q \in called
    /\ stepOf[q] < NumSteps
    /\ ResultsTimer(q) \notin indexTimers
    /\ Len(indexMessages) < MaxIndexMessages
    /\ indexMessages' = Append(indexMessages, NewMessage(q, stepOf[q]))
    /\ indexProgress' = StepProgress(stepOf[q])
    /\ indexTimers' = indexTimers
                        \cup (IF stepOf[q] = ResultsStep THEN {ResultsTimer(q)} ELSE {})
                        \cup (IF stepOf[q] = NumSteps - 1 THEN {SummaryTimer(q)} ELSE {})
    /\ isSearching' = IF stepOf[q] = NumSteps - 1 THEN FALSE ELSE isSearching
    /\ stepOf' = [stepOf EXCEPT ![q] = stepOf[q] + 1]
    /\ UNCHANGED <<indexResults, indexSummary, called, current>>

\* the timer set in step 7 fires (line 378)
ShowResults(q) ==
    /\ UNCHANGED <<wsVars, wsObs, srVars, srObs, apiVars>>
    /\ ResultsTimer(q) \in indexTimers
    /\ indexTimers' = indexTimers \ {ResultsTimer(q)}
    /\ indexResults' = MockResults(q)
    /\ UNCHANGED <<isSearching, indexProgress, indexMessages, indexSummary, called, stepOf,
                   current>>

\* the timer set in the last step fires (line 383)
ShowSummary(q) ==
    /\ UNCHANGED <<wsVars, wsObs, srVars, srObs, apiVars>>
    /\ SummaryTimer(q) \in indexTimers
    /\ indexTimers' = indexTimers \ {SummaryTimer(q)}
    /\ indexSummary' = MockSummary(q)
    /\ UNCHANGED <<isSearching, indexProgress, indexMessages, indexResults, called, stepOf,
                   current>>

NextIndex ==
    \/ \E q \in Queries : simulateSearch(q)
    \/ \E q \in Queries : SearchStep(q)
    \/ \E q \in Queries : ShowResults(q)
    \/ \E q \in Queries : ShowSummary(q)

(***************************************************************************)
(* useApi: values                                                          *)
(***************************************************************************)
Requests == 1..MaxRequests

\* data = null / error = null, and the Error object a catch produces
Null == "null"
AnError == "Error"

\* what the awaited fetch gives: a rejection (network failure), a response
\* with ok = false, or an ok response with a JSON or another content type
NoResponse == "none"
Responses == {"rejected", "notOk", "okJson", "okOther"}

\* the call's promise while it is pending
Pending == [state |-> "pending", data |-> Null, error |-> Null, loading |-> FALSE]

\* lines 58-59: return { data, error: null, loading: false }
Resolve(data) == [state |-> "resolved", data |-> data, error |-> Null, loading |-> FALSE]

\* lines 60-66: the catch block returns { data: null, error, loading: false }
CatchRethrows(e) == [state |-> "rejected", data |-> Null, error |-> e, loading |-> FALSE]
Catch(e) == [state |-> "resolved", data |-> Null, error |-> e, loading |-> FALSE]

\* lines 49-56: the data read from an ok response
BodyOf(resp) == IF resp = "okJson" THEN "json" ELSE "text"

(***************************************************************************)
(* useApi: actions                                                         *)
(***************************************************************************)

\* request() is called (lines 29-42) with a body JSON.stringify accepts, or
\* with one it throws on (a cyclic object): the throw happens inside the try,
\* so the call is over at once through the catch block
request(r, serialisable) ==
    /\ UNCHANGED <<wsVars, wsObs, srVars, srObs, indexVars, indexObs>>
    /\ pc[r] = "idle"
    /\ IF serialisable
       THEN /\ apiLoading' = TRUE
            /\ pc' = [pc EXCEPT ![r] = "fetch"]
            /\ settled' = settled
       ELSE /\ apiLoading' = FALSE
            /\ pc' = [pc EXCEPT ![r] = "done"]
            /\ settled' = [settled EXCEPT ![r] = Catch(AnError)]
    /\ UNCHANGED response

\* the awaited fetch settles (lines 34-47): a rejection or a response that is
\* not ok ends in the catch block, an ok response goes on to read its body
FetchSettles(r, resp) ==
    /\ UNCHANGED <<wsVars, wsObs, srVars, srObs, indexVars, indexObs>>
    /\ pc[r] = "fetch"
    /\ response' = [response EXCEPT ![r] = resp]
    /\ IF resp \in {"rejected", "notOk"}
       THEN /\ apiLoading' = FALSE
            /\ pc' = [pc EXCEPT ![r] = "done"]
            /\ settled' = [settled EXCEPT ![r] = Catch(AnError)]
       ELSE /\ pc' = [pc EXCEPT ![r] = "body"]
            /\ UNCHANGED <<apiLoading, settled>>

\* the awaited response.json() / response.text() settles (lines 49-59): with
\* the data, or with a rejection (a body that is not JSON, a stream that
\* breaks) that ends in the catch block
BodySettles(r, readable) ==
    /\ UNCHANGED <<wsVars, wsObs, srVars, srObs, indexVars, indexObs>>
    /\ pc[r] = "body"
    /\ apiLoading' = FALSE
    /\ pc' = [pc EXCEPT ![r] = "done"]
    /\ settled' = [settled EXCEPT ![r] =
                      IF readable THEN Resolve(BodyOf(response[r])) ELSE Catch(AnError)]
    /\ UNCHANGED response

NextApi ==
    \/ \E r \in Requests : \E serialisable \in BOOLEAN : request(r, serialisable)
    \/ \E r \in Requests : \E resp \in Responses : FetchSettles(r, resp)
    \/ \E r \in Requests : \E readable \in BOOLEAN : BodySettles(r, readable)

(***************************************************************************)
(* Initial states and specifications                                      *)
(***************************************************************************)
\* line 22, and no call of request() made yet
InitApi ==
    /\ apiLoading = FALSE
    /\ pc = [r \in Requests |-> "idle"]
    /\ response = [r \in Requests |-> NoResponse]
    /\ settled = [r \in Requests |-> Pending]

\* lines 46-50
InitIndex ==
    /\ isSearching = FALSE
    /\ indexProgress = 0
    /\ indexMessages = <<>>
    /\ indexResults = NoProducts
    /\ indexSummary = NoSummary
    /\ called = {}
    /\ stepOf = [q \in Queries |-> 0]
    /\ indexTimers = {}
    /\ current = NoQuery

InitSR ==
    /\ results = NoResults
    /\ partialResults = <<>>
    /\ loading = FALSE
    /\ error = FALSE
    /\ streamMessages = <<>>
    /\ progressValue = 0
    /\ displayedProducts = <<>>
    /\ started = FALSE
    /\ cancelled = FALSE

InitWS ==
    /\ InitSR
    /\ InitIndex
    /\ InitApi
    /\ autoReconnect \in BOOLEAN
    /\ maxReconnectAttempts \in 0..MaxAttempts
    /\ phase = "init"
    /\ sockets = <<>>
    /\ webSocketRef = 0
    /\ reconnectAttemptsRef = 0
    /\ timers = {}
    /\ reconnectTimeoutRef = 0
    /\ readyState = CONNECTING
    /\ lastMessage = NoMessage
    /\ unseen = FALSE
    /\ wire = {}
    /\ sendLog = [d \in Payloads |-> NoSend]
    /\ lastCallback = "none"
    /\ everOpened = FALSE
    /\ reruns = 0
    /\ teardownReconnect = FALSE
    /\ stale = {}
    /\ exhausted = FALSE

NextWS ==
    \/ Mount
    \/ EffectRerun
    \/ Unmount
    \/ \E s \in DOMAIN sockets : SocketOpen(s)
    \/ \E s \in DOMAIN sockets : \E m \in Frames : SocketMessage(s, m)
    \/ Render
    \/ \E s \in DOMAIN sockets : SocketClose(s)
    \/ \E s \in DOMAIN sockets : SocketError(s)
    \/ \E t \in timers : TimerFire(t)
    \/ \E d \in Payloads : sendMessage(d)

\* the options as defaulted in lines 25-27
DefaultMaxReconnectAttempts == 5
InitSRDefault ==
    /\ InitSR
    /\ InitIndex
    /\ InitApi
    /\ autoReconnect = TRUE
    /\ maxReconnectAttempts = DefaultMaxReconnectAttempts
    /\ phase = "init"
    /\ sockets = <<>>
    /\ webSocketRef = 0
    /\ reconnectAttemptsRef = 0
    /\ timers = {}
    /\ reconnectTimeoutRef = 0
    /\ readyState = CONNECTING
    /\ lastMessage = NoMessage
    /\ unseen = FALSE
    /\ wire = {}
    /\ sendLog = [d \in Payloads |-> NoSend]
    /\ lastCallback = "none"
    /\ everOpened = FALSE
    /\ reruns = 0
    /\ teardownReconnect = FALSE
    /\ stale = {}
    /\ exhausted = FALSE

\* the useWebSocket hook
SpecWS == InitWS /\ [][NextWS]_vars
\* the SearchResults component
SpecSR == InitSRDefault /\ [][NextSR]_vars
\* the useApi hook
SpecApi == InitSRDefault /\ [][NextApi]_vars
\* the Index page
SpecIndex == InitSRDefault /\ [][NextIndex]_vars
\* the Index page with its timers: a setTimeout that was set does fire, so an
\* await of the loop ends and a scheduled setResults / setSummary runs; when
\* the user submits a query is not forced
FairSpecIndex ==
    /\ SpecIndex
    /\ \A q \in Queries : WF_vars(SearchStep(q))
    /\ \A q \in Queries : WF_vars(ShowResults(q))
    /\ \A q \in Queries : WF_vars(ShowSummary(q))

(***************************************************************************)
(* Properties: SearchResults (checked under SpecSR)                        *)
(***************************************************************************)

\* C1: within one search session (between two starts) the published progress
\* value never decreases, whatever the order of the percent values of the
\* progress updates.
C1_ProgressNeverDecreases ==
    [][handleSearch \/ progressValue' >= progressValue]_vars

\* C2: streamMessages never holds two entries with the same message text.
C2_OneEntryPerText ==
    \A i, j \in 1..Len(streamMessages) :
        i # j => streamMessages[i].message # streamMessages[j].message

C4_NoChangeAfterCancel ==
    [][(cancelled /\ cancelled')
          => UNCHANGED <<streamMessages, progressValue, displayedProducts>>]_vars

(***************************************************************************)
(* Properties: useWebSocket (checked under SpecWS)                         *)
(***************************************************************************)

\* C5: once the component is torn down, no reconnect has been scheduled by
\* the close event of a socket that the effect cleanup closed.
C5_TeardownCloseNeverReconnects == phase = "unmounted" => ~teardownReconnect

\* C6: a reconnect timer that was pending when a cleanup (teardown) ran never
\* runs connect() afterwards.
C6_PendingReconnectNeverRuns ==
    [][\A t \in stale : ~TimerFire(t)]_vars

\* every socket created so far is CLOSED and no reconnect is pending
Quiescent ==
    /\ Len(sockets) >= 1
    /\ \A s \in DOMAIN sockets : sockets[s] = CLOSED
    /\ timers = {}

\* one mount with autoReconnect, no effect re-run, no socket ever opened
NeverOpened ==
    /\ autoReconnect
    /\ phase = "mounted"
    /\ reruns = 0
    /\ ~everOpened

\* C7: with autoReconnect and maxReconnectAttempts = N, when every connection
\* closes without ever opening, never more than N connections follow the
\* first one, each counted by the attempt counter, and when nothing is left
\* to happen exactly N have been made.
C7_ExactlyNReconnects ==
    NeverOpened =>
        /\ Len(sockets) - 1 <= maxReconnectAttempts
        /\ reconnectAttemptsRef = Len(sockets) - 1
        /\ Quiescent => Len(sockets) - 1 = maxReconnectAttempts

\* C7 witness: N = 3, four connections made and closed, nothing pending.
C7_Witness ==
    /\ NeverOpened
    /\ maxReconnectAttempts = MaxAttempts
    /\ Quiescent
    /\ Len(sockets) = MaxAttempts + 1

\* C8: the attempt counter stays within 0..maxReconnectAttempts.
C8_AttemptsBounded ==
    /\ 0 <= reconnectAttemptsRef
    /\ reconnectAttemptsRef <= maxReconnectAttempts

\* C9: when the reconnect attempts are exhausted the hook shows a failed or
\* exhausted status, or reports an error.
C9_ExhaustionSurfaced ==
    exhausted =>
        \/ getConnectionStatus \in {"failed", "exhausted"}
        \/ lastCallback = "onError"

C11_EveryFrameObserved ==
    [][unseen => ~(\E s \in DOMAIN sockets : \E m \in Frames : SocketMessage(s, m))]_vars

\* C16: a step in which a socket opens leaves reconnectAttemptsRef at 0, and
\* (as long as the connect effect has not re-run) an open socket finds the
\* counter still at 0 when it closes, so that the full budget is available.
C16_OpenResetsAttempts ==
    [][/\ (\E s \in DOMAIN sockets : sockets[s] = CONNECTING /\ sockets'[s] = OPEN)
          => reconnectAttemptsRef' = 0
       /\ (reruns = 0 /\ \E s \in DOMAIN sockets : sockets[s] = OPEN /\ sockets'[s] = CLOSED)
          => reconnectAttemptsRef = 0]_vars

\* a socket created by a reconnect has opened after the first one closed
C16_Witness ==
    /\ reruns = 0
    /\ Len(sockets) >= 2
    /\ sockets[1] = CLOSED
    /\ sockets[Len(sockets)] = OPEN
    /\ reconnectAttemptsRef = 0

\* C17: the step in which a socket becomes CLOSED schedules a reconnect timer
\* exactly when autoReconnect is on and the counter is below
\* maxReconnectAttempts, and leaves the counter alone; the counter goes up by
\* one in the step in which a timer runs; with autoReconnect off no timer is
\* ever pending.
C17_ScheduleIffBudget ==
    [][/\ \A s \in DOMAIN sockets :
            (sockets[s] # CLOSED /\ sockets'[s] = CLOSED)
               => /\ s \in timers' <=> (autoReconnect
                                          /\ reconnectAttemptsRef < maxReconnectAttempts)
                  /\ reconnectAttemptsRef' = reconnectAttemptsRef
       /\ \A t \in timers :
            (t \notin timers' /\ phase' = phase /\ reruns' = reruns)
               => reconnectAttemptsRef' = reconnectAttemptsRef + 1
       /\ ~autoReconnect => timers' = {}]_vars

\* one scheduled re-open has run and the next one is scheduled
C17_Witness ==
    /\ reruns = 0
    /\ autoReconnect
    /\ reconnectAttemptsRef = 1
    /\ reconnectAttemptsRef < maxReconnectAttempts
    /\ timers # {}

(***************************************************************************)
(* Properties: SearchResults log (checked under SpecSR)                    *)
(***************************************************************************)
IsPrefix(a, b) == Len(a) <= Len(b) /\ SubSeq(b, 1, Len(a)) = a
\* what a step from log a to log b appended
Appended(a, b) == SubSeq(b, Len(a) + 1, Len(b))
\* a keeps the order of b: a is b with some elements left out
IsSubsequence(a, b) ==
    \E f \in [1..Len(a) -> 1..Len(b)] :
        /\ \A i \in 1..Len(a) : a[i] = b[f[i]]
        /\ \A i, j \in 1..Len(a) : i < j => f[i] < f[j]
Texts(log) == [i \in 1..Len(log) |-> log[i].message]
CancelEntries(log) == {i \in 1..Len(log) : log[i].message = CancelText}
CancelAppended ==
    /\ Len(streamMessages') = Len(streamMessages) + 1
    /\ streamMessages'[Len(streamMessages')].message = CancelText

C18_AppendOnly ==
    [][streamMessages' # streamMessages
         => /\ \A logs \in LogBatches :
                 LogsUpdate(logs)
                    => /\ IsPrefix(streamMessages, streamMessages')
                       /\ IsSubsequence(Texts(Appended(streamMessages, streamMessages')),
                                        logs)
            /\ \A p \in ProgressValues :
                 (progressValue' = OrZero(p.progress) /\ ProgressUpdate(p))
                    => IsPrefix(streamMessages, streamMessages')]_vars

\* a log that grew to three entries within one session
C18_Witness ==
    /\ ~cancelled
    /\ Len(streamMessages) = 3
    /\ streamMessages[1].message # streamMessages[2].message
    /\ streamMessages[2].message # streamMessages[3].message

\* the tag the claim names for a status
TagOf(status) ==
    CASE status = "completed" -> "success"
      [] status = "cancelled" -> "warning"
      [] OTHER -> "progress"
WithDerived(log, p) == Append(log, [type |-> TagOf(p.status), message |-> p.message])

\* C19 (as claimed): whatever the log of a started session holds, a progress
\* update that carries a message text appends exactly one entry tagged by its
\* status when the text is new, whatever the status, and leaves the log
\* unchanged when the text is already recorded.
C19_DerivedEntryAnyStatus ==
    started =>
        \A p \in ProgressValues :
            p.message # Undefined
               => FoldProgress(streamMessages, p)
                     = IF p.message \in ExistingMessages(streamMessages)
                       THEN streamMessages
                       ELSE WithDerived(streamMessages, p)

\* C19 (amended): a progress update with a message text and a status other
\* than error appends exactly one entry tagged success / warning / progress by
\* its status when the text is new; with a recorded text, with status error or
\* without a message text it leaves the log unchanged.
C19_DerivedEntryUnlessError ==
    started =>
        \A p \in ProgressValues :
            FoldProgress(streamMessages, p)
               = IF /\ p.message # Undefined
                    /\ p.status # "error"
                    /\ p.message \notin ExistingMessages(streamMessages)
                 THEN WithDerived(streamMessages, p)
                 ELSE streamMessages

\* the log holds an entry derived from a cancelled-status progress update
C19_Witness ==
    \E i \in 1..Len(streamMessages) :
        streamMessages[i] = [type |-> "warning", message |-> DoneText]

indexFields == <<indexMessages, indexProgress, indexResults, indexSummary>>

\* C12: once a newer search has been started, no loop iteration and no timer
\* of an older simulateSearch call changes messages, progress, results or
\* summary.
C12_OldSearchChangesNothing ==
    [][\A q \in called :
         (q # current /\ (SearchStep(q) \/ ShowResults(q) \/ ShowSummary(q)))
            => UNCHANGED indexFields]_vars

\* C13: after a search has ended (isSearching is back to false) no session
\* field changes in a step that does not start a new search.
C13_TerminalIsFrozen ==
    [][(called # {} /\ ~isSearching /\ called' = called)
          => UNCHANGED <<isSearching, indexFields>>]_vars

\* C14: what the page shows was recorded by the search started last: every
\* message was appended by that call, and results and summary are empty or
\* the mock data of its query.
C14_NothingFromPreviousSearch ==
    current # NoQuery =>
        /\ \A i \in 1..Len(indexMessages) : indexMessages[i].run = current
        /\ indexResults \in {NoProducts, MockResults(current)}
        /\ indexSummary \in {NoSummary, MockSummary(current)}

(***************************************************************************)
(* Properties: useWebSocket, error events and live sockets (SpecWS)        *)
(***************************************************************************)
\* C21: the step in which onError is invoked changes no socket's readyState,
\* and leaves the state readyState, the attempt counter, the pending timers,
\* reconnectTimeoutRef, webSocketRef and lastMessage as they were.
C21_ErrorOnlyCallsOnError ==
    [][(lastCallback' = "onError" /\ lastCallback # "onError")
          => UNCHANGED <<sockets, readyState, reconnectAttemptsRef, timers,
                         reconnectTimeoutRef, webSocketRef, lastMessage, unseen>>]_vars

\* onError was the last callback and the connection is still open, with a
\* frame received
C21_Witness ==
    /\ lastCallback = "onError"
    /\ webSocketRef # 0
    /\ sockets[webSocketRef] = OPEN
    /\ readyState = OPEN
    /\ lastMessage # NoMessage

\* the sockets the hook created that are CONNECTING or OPEN
LiveSockets == {s \in DOMAIN sockets : sockets[s] \in {CONNECTING, OPEN}}

\* C23: at most one socket created by the hook is CONNECTING or OPEN, and it
\* is the one webSocketRef holds.
C23_AtMostOneLive ==
    /\ Cardinality(LiveSockets) <= 1
    /\ LiveSockets \subseteq {webSocketRef}

(***************************************************************************)
(* Properties: SearchResults retry (checked under SpecSR)                  *)
(***************************************************************************)
\* C26: a retry requested while a final or partial result exists, or while no
\* log entry contains 'Search initiated:', changes neither streamMessages nor
\* progressValue.
C26_RetryStartsOrNothing ==
    [][(/\ handleRetry
        /\ \/ ~NothingToShow(results, partialResults)
           \/ ~HasInitiated(streamMessages))
          => UNCHANGED <<streamMessages, progressValue>>]_vars

(***************************************************************************)
(* Properties: Index, termination (checked under FairSpecIndex)            *)
(***************************************************************************)
\* the search started last has ended with everything published
Completed ==
    /\ ~isSearching
    /\ indexProgress = 100
    /\ Len(indexMessages) = NumSteps
    /\ \A i \in 1..Len(indexMessages) :
          indexMessages[i].run = current /\ indexMessages[i].step = i - 1
    /\ indexResults = MockResults(current)
    /\ indexSummary = MockSummary(current)

\* C25: once a search is started, then unless a second search is started it
\* reaches isSearching = false with progress 100, the ten messages of its
\* steps in step order, its results and its summary published.
C25_SingleSearchTerminates ==
    (Cardinality(called) = 1) ~> (Cardinality(called) > 1 \/ Completed)

\* the single search has ended with everything published
C25_Witness ==
    /\ Cardinality(called) = 1
    /\ indexTimers = {}
    /\ Completed

(***************************************************************************)
(* Properties: useApi (checked under SpecApi)                              *)
(***************************************************************************)
InFlight == {r \in Requests : pc[r] \in {"fetch", "body"}}

\* C22 (as claimed): a call of request() never rejects; once it is over it has
\* resolved to {data, error, loading: false}, with data = null and an error
\* after a network failure or a response that is not ok, and with
\* error = null after every ok response.
C22_OkMeansNoError ==
    \A r \in Requests :
        /\ settled[r].state # "rejected"
        /\ pc[r] = "done"
              => /\ settled[r].state = "resolved"
                 /\ settled[r].loading = FALSE
                 /\ response[r] \in {"rejected", "notOk"}
                       => (settled[r].data = Null /\ settled[r].error # Null)
                 /\ response[r] \in {"okJson", "okOther"} => settled[r].error = Null

\* C22 (amended): a call of request() never rejects; once it is over it has
\* resolved to {data, error, loading: false}: with error = null exactly when
\* it carries data, with data = null and an error after a network failure, a
\* response that is not ok or a body that could not be turned into a request,
\* and with the data read after an ok response unless reading the body failed.
C22_NeverRejects ==
    \A r \in Requests :
        /\ settled[r].state # "rejected"
        /\ pc[r] # "done" => settled[r].state = "pending"
        /\ pc[r] = "done"
              => /\ settled[r].state = "resolved"
                 /\ settled[r].loading = FALSE
                 /\ (settled[r].error = Null) <=> (settled[r].data # Null)
                 /\ response[r] \in {NoResponse, "rejected", "notOk"}
                       => (settled[r].data = Null /\ settled[r].error # Null)
                 /\ response[r] \in {"okJson", "okOther"}
                       => \/ settled[r].data = BodyOf(response[r])
                          \/ settled[r].error # Null

\* one call resolved with an error after an ok response, one with data, one
\* with the error of a response that was not ok
C22_Witness ==
    \E a, b, c \in Requests :
        /\ pc[a] = "done" /\ response[a] = "okJson" /\ settled[a].error # Null
        /\ pc[b] = "done" /\ response[b] = "okJson" /\ settled[b].data = "json"
        /\ pc[c] = "done" /\ response[c] = "notOk" /\ settled[c].error # Null

\* C24: loading is true exactly while at least one call of request() is in
\* flight.
C24_LoadingIffInFlight == apiLoading <=> (InFlight # {})

====
